---- MODULE Spec2Model ----
(***************************************************************************)
(* A model of the XML/XSLT transformation engine of xml-style-viewer       *)
(* (src/transformer.py, class XmlXsltTransformer) and of the preview files *)
(* and the folder navigation of its main window (src/main_window.py).      *)
(*                                                                         *)
(* Text is modelled as a sequence of characters, each character a TLA+     *)
(* string of length one; a character that is not ASCII is named by its     *)
(* code point ("U+0130").  Indexes returned by Find are 0-based, as        *)
(* Python's str.find, and -1 means "not found".                           *)
(***************************************************************************)
EXTENDS Integers, Sequences, FiniteSets, TLC

(***************************************************************************)
(* Bounds of the model.                                                    *)
(***************************************************************************)
MaxChunks == 3
MaxPad == 1
MaxNodes == 2
MaxHistory == 3

VARIABLES
    mIn,      \* markup handed to a post-processing helper
    mEnc,     \* charset handed to _inject_meta_charset
    mOut,     \* what the helper returned
    mPrev,    \* the argument of the latest helper call
    mOp,      \* which helper calls have been made
    nIn,      \* argument of _normalize_charset
    nOut,     \* its return value
    nOp,      \* "input" before the call, "done" after it
    rXml,     \* xml_path handed to _resolve_xsl_path
    rTree,    \* the parsed document handed to it: the nodes before the root
    rFiles,   \* the paths that exist on disk
    rOut,     \* what the call returned or raised
    rHref,    \* what _read_stylesheet_href_from_pi returned or raised
    rOp,      \* "input" before the call, "done" or "read" after it
    disk,     \* the filesystem: path -> content of the file there
    pc,       \* where the transform_to_html_file call stands
    call,     \* its arguments, its live local variables and its outcome
    xIn,      \* what _get_output_encoding_from_xsl finds at xsl_path
    xOut,     \* what the call returned or raised
    xOp,      \* "input" before the call, "done" after it
    current_xml,  \* MainWindow.current_xml
    view,         \* the preview file the view shows, NoPath for the empty message
    previews,     \* the preview directory: file -> the document it renders
    cdisk0,   \* two callers: the filesystem when their calls began
    cdisk,    \* the filesystem they share
    cpc,      \* caller -> where its transform_to_html_file call stands
    ccall,    \* caller -> arguments, live locals and outcome of its call
    dirs,                  \* the folders that exist
    current_folder,        \* MainWindow.current_folder, NoPath for None
    folder_history,        \* MainWindow._folder_history
    folder_history_index   \* MainWindow._folder_history_index, -1 when unset

markupVars == <<mIn, mEnc, mOut, mPrev, mOp>>
charsetVars == <<nIn, nOut, nOp>>
resolveVars == <<rXml, rTree, rFiles, rOut, rHref, rOp>>
fileVars == <<disk, pc, call>>
encodingVars == <<xIn, xOut, xOp>>
previewVars == <<current_xml, view, previews>>
concVars == <<cdisk0, cdisk, cpc, ccall>>
navVars == <<dirs, current_folder, folder_history, folder_history_index>>
extraVars == <<encodingVars, previewVars, concVars, navVars>>
otherVars == <<markupVars, charsetVars, resolveVars, extraVars>>
vars == <<markupVars, charsetVars, resolveVars, fileVars, extraVars>>

(***************************************************************************)
(* Python string primitives.                                               *)
(***************************************************************************)
None == <<"<None>">>

UpperLetters == <<"A","B","C","D","E","F","G","H","I","J","K","L","M",
                  "N","O","P","Q","R","S","T","U","V","W","X","Y","Z">>

LowerLetters == <<"a","b","c","d","e","f","g","h","i","j","k","l","m",
                  "n","o","p","q","r","s","t","u","v","w","x","y","z">>

\* str.lower() of one character: a sequence, because U+0130 (LATIN CAPITAL
\* LETTER I WITH DOT ABOVE) lower-cases to the two characters "i" U+0307.
LowerChar(c) ==
    IF \E i \in 1..26 : UpperLetters[i] = c
    THEN <<LowerLetters[CHOOSE i \in 1..26 : UpperLetters[i] = c]>>
    ELSE IF c = "U+0130" THEN <<"i", "U+0307">>
    ELSE <<c>>

RECURSIVE Lower(_)
Lower(s) == IF s = <<>> THEN <<>> ELSE LowerChar(Head(s)) \o Lower(Tail(s))

\* re.IGNORECASE compares single characters by their simple lower case.
FoldChar(c) ==
    IF \E i \in 1..26 : UpperLetters[i] = c
    THEN LowerLetters[CHOOSE i \in 1..26 : UpperLetters[i] = c]
    ELSE c

IsSpace(c) == c \in {" ", "\n", "\t"}

\* s[a:b] with Python's clamping of out-of-range indexes (0-based, b excluded).
Slice(s, a, b) ==
    LET lo == IF a < 0 THEN 0 ELSE a
        hi == IF b > Len(s) THEN Len(s) ELSE b
    IN  IF lo >= hi THEN <<>> ELSE SubSeq(s, lo + 1, hi)

StartsAt(s, sub, i) ==
    /\ i >= 0
    /\ i + Len(sub) <= Len(s)
    /\ \A k \in 1..Len(sub) : s[i + k] = sub[k]

\* s.find(sub, start)
Find(s, sub, start) ==
    LET hits == {i \in start..(Len(s) - Len(sub)) : StartsAt(s, sub, i)}
    IN  IF hits = {} THEN -1 ELSE CHOOSE i \in hits : \A j \in hits : i <= j

\* s.strip()
RECURSIVE LStrip(_)
LStrip(s) == IF s # <<>> /\ IsSpace(Head(s)) THEN LStrip(Tail(s)) ELSE s

RECURSIVE RStrip(_)
RStrip(s) ==
    IF s # <<>> /\ IsSpace(s[Len(s)]) THEN RStrip(SubSeq(s, 1, Len(s) - 1)) ELSE s

Strip(s) == RStrip(LStrip(s))

(***************************************************************************)
(* HTML post-processing helpers.                                           *)
(***************************************************************************)
\* The text of CUSTOM_CSS is one opaque character: it holds no "<" and no ">".
CUSTOM_CSS == <<"\n", "CUSTOM_CSS", "\n">>

StyleBlock ==
    <<"<","s","t","y","l","e",">","\n">> \o CUSTOM_CSS
        \o <<"\n","<","/","s","t","y","l","e",">","\n">>

HeadCloseTag == <<"<","/","h","e","a","d",">">>
HeadOpenTag == <<"<","h","e","a","d">>

InjectCustomCss(html) ==
    LET lower_html == Lower(html)
        idx == Find(lower_html, HeadCloseTag, 0)
    IN  IF idx # -1
        THEN Slice(html, 0, idx) \o StyleBlock \o Slice(html, idx, Len(html))
        ELSE StyleBlock \o html

\* The regular expression <meta\s+[^>]*charset\s*= matched, ignoring case,
\* with the match starting at 0-based index i.
MetaWord == <<"<","m","e","t","a">>
CharsetWord == <<"c","h","a","r","s","e","t">>

StartsAtCI(s, sub, i) ==
    /\ i >= 0
    /\ i + Len(sub) <= Len(s)
    /\ \A k \in 1..Len(sub) : FoldChar(s[i + k]) = sub[k]

\* index (0-based) of the first character at or after j that is no white space
RECURSIVE SkipSpace(_, _)
SkipSpace(s, j) ==
    IF j < Len(s) /\ IsSpace(s[j + 1]) THEN SkipSpace(s, j + 1) ELSE j

MetaCharsetAt(html, i) ==
    /\ StartsAtCI(html, MetaWord, i)
    /\ i + 5 < Len(html)
    /\ IsSpace(html[i + 6])
    /\ \E j \in (i + 6)..(Len(html) - 7) :
          /\ \A k \in (i + 6)..(j - 1) : html[k + 1] # ">"
          /\ StartsAtCI(html, CharsetWord, j)
          /\ LET e == SkipSpace(html, j + 7)
             IN  e < Len(html) /\ html[e + 1] = "="

HasMetaCharset(html) == \E i \in 0..(Len(html) - 1) : MetaCharsetAt(html, i)

MetaTag(charset) ==
    <<"<","m","e","t","a"," ","c","h","a","r","s","e","t","=","\"">>
        \o charset \o <<"\"", ">", "\n">>

\* _inject_meta_charset without its guard on an existing declaration
InjectMetaCharsetUnguarded(html, charset) ==
    LET meta == MetaTag(charset)
        lower_html == Lower(html)
        head_open_idx == Find(lower_html, HeadOpenTag, 0)
        head_end == Find(lower_html, <<">">>, head_open_idx)
    IN  IF head_open_idx = -1 \/ head_end = -1 THEN meta \o html
        ELSE Slice(html, 0, head_end + 1) \o <<"\n">> \o meta
                 \o Slice(html, head_end + 1, Len(html))

InjectMetaCharset(html, charset) ==
    IF HasMetaCharset(html) THEN html
    ELSE LET meta == MetaTag(charset)
             lower_html == Lower(html)
             head_open_idx == Find(lower_html, HeadOpenTag, 0)
         IN  IF head_open_idx = -1 THEN meta \o html
             ELSE LET head_end == Find(lower_html, <<">">>, head_open_idx)
                  IN  IF head_end = -1 THEN meta \o html
                      ELSE LET insert_pos == head_end + 1
                           IN  Slice(html, 0, insert_pos) \o <<"\n">> \o meta
                                   \o Slice(html, insert_pos, Len(html))

UTF8 == <<"U","T","F","-","8">>
ShiftJIS == <<"S","h","i","f","t","_","J","I","S">>

ShiftJisAliases ==
    { <<"s","h","i","f","t","_","j","i","s">>,
      <<"s","h","i","f","t","-","j","i","s">>,
      <<"s","j","i","s">>,
      <<"m","s","9","3","2">>,
      <<"c","p","9","3","2">> }

NormalizeCharset(enc) ==
    IF enc = None \/ enc = <<>> THEN UTF8
    ELSE LET e == Strip(enc)
         IN  IF Lower(e) \in ShiftJisAliases THEN ShiftJIS ELSE e

\* codecs.lookup: the names Python's codec registry knows, compared in lower case
CodecNames ==
    { <<"u","t","f","-","8">>,
      <<"s","h","i","f","t","_","j","i","s">>,
      <<"e","u","c","-","j","p">> }

CodecLookup(enc) == Lower(enc) \in CodecNames

(***************************************************************************)
(* Paths and processing instructions.  A file name, an href and the text   *)
(* of a processing instruction are character sequences too, with a run of  *)
(* letters written as one character ("xsl", "href"): no operation below    *)
(* looks inside such a run.  A path is a record of its components.         *)
(***************************************************************************)
\* shlex.split(text): white space separates words, a quote groups characters
\* into the current word and is dropped, an unclosed quote raises ValueError.
\* cur is the word being read, started whether there is one, quote the open
\* quote or "".
RECURSIVE ShlexScan(_, _, _, _, _)
ShlexScan(text, cur, started, quote, acc) ==
    IF text = <<>>
    THEN IF quote # "" THEN [ok |-> FALSE, parts |-> <<>>]
         ELSE [ok |-> TRUE, parts |-> IF started THEN Append(acc, cur) ELSE acc]
    ELSE LET c == Head(text)
             rest == Tail(text)
         IN  IF quote # ""
             THEN IF c = quote THEN ShlexScan(rest, cur, TRUE, "", acc)
                  ELSE ShlexScan(rest, Append(cur, c), TRUE, quote, acc)
             ELSE IF c \in {"\"", "'"} THEN ShlexScan(rest, cur, TRUE, c, acc)
             ELSE IF IsSpace(c)
                  THEN IF started THEN ShlexScan(rest, <<>>, FALSE, "", Append(acc, cur))
                       ELSE ShlexScan(rest, <<>>, FALSE, "", acc)
             ELSE ShlexScan(rest, Append(cur, c), TRUE, "", acc)

ShlexSplit(text) == ShlexScan(text, <<>>, FALSE, "", <<>>)

\* the attrs dictionary built from the words, then attrs.get(key): the value of
\* the last word "key=value" with that key, None when there is none
AttrsGet(parts, key) ==
    LET hits == {i \in 1..Len(parts) :
                    /\ Find(parts[i], <<"=">>, 0) # -1
                    /\ Slice(parts[i], 0, Find(parts[i], <<"=">>, 0)) = key}
    IN  IF hits = {} THEN None
        ELSE LET i == CHOOSE i \in hits : \A j \in hits : j <= i
                 eq == Find(parts[i], <<"=">>, 0)
             IN  Slice(parts[i], eq + 1, Len(parts[i]))

HrefKey == <<"href">>

\* a scan that passes over an instruction without href and consults the
\* instructions before it
RECURSIVE ScanPreviousUntilHref(_, _)
ScanPreviousUntilHref(prolog, n) ==
    IF n = 0 THEN [kind |-> "ok", href |-> None]
    ELSE LET node == prolog[n]
         IN  IF node.kind = "pi" /\ node.target = "xml-stylesheet" /\ node.text # <<>>
             THEN LET split == ShlexSplit(node.text)
                  IN  IF ~split.ok THEN [kind |-> "ValueError", href |-> None]
                      ELSE IF AttrsGet(split.parts, HrefKey) = None
                           THEN ScanPreviousUntilHref(prolog, n - 1)
                      ELSE [kind |-> "ok", href |-> AttrsGet(split.parts, HrefKey)]
             ELSE ScanPreviousUntilHref(prolog, n - 1)

\* Scans the nodes before the root from the root backwards.
RECURSIVE ScanPrevious(_, _)
ScanPrevious(prolog, n) ==
    IF n = 0 THEN [kind |-> "ok", href |-> None]
    ELSE LET node == prolog[n]
         IN  IF node.kind = "pi" /\ node.target = "xml-stylesheet" /\ node.text # <<>>
             THEN LET split == ShlexSplit(node.text)
                  IN  IF split.ok
                      THEN [kind |-> "ok", href |-> AttrsGet(split.parts, HrefKey)]
                      ELSE [kind |-> "ValueError", href |-> None]
             ELSE ScanPrevious(prolog, n - 1)

ReadStylesheetHrefFromPi(xml_tree) == ScanPrevious(xml_tree, Len(xml_tree))

\* PurePath.stem: the name up to its last ".", unless that "." is the first or
\* the last character of the name
Stem(name) ==
    LET dots == {i \in 1..Len(name) : name[i] = "."}
        i == IF dots = {} THEN 0 ELSE CHOOSE k \in dots : \A j \in dots : j <= k
    IN  IF 1 < i /\ i < Len(name) THEN SubSeq(name, 1, i - 1) ELSE name

PathName(path) == IF path.parts = <<>> THEN <<>> ELSE path.parts[Len(path.parts)]

PathParent(path) ==
    IF path.parts = <<>> THEN path
    ELSE [path EXCEPT !.parts = SubSeq(path.parts, 1, Len(path.parts) - 1)]

\* the expected name built from the whole file name
GetExpectedXslNameKeepingSuffix(xml_path) == PathName(xml_path) \o <<".", "xsl">>

GetExpectedXslName(xml_path) == Stem(PathName(xml_path)) \o <<".", "xsl">>

\* Path(text): the components between "/", without the empty ones and the "."
\* ones; absolute when the text starts with "/"
RECURSIVE SplitComponents(_, _, _)
SplitComponents(text, cur, acc) ==
    LET keep == cur # <<>> /\ cur # <<".">>
    IN  IF text = <<>> THEN IF keep THEN Append(acc, cur) ELSE acc
        ELSE IF Head(text) = "/"
             THEN SplitComponents(Tail(text), <<>>, IF keep THEN Append(acc, cur) ELSE acc)
             ELSE SplitComponents(Tail(text), Append(cur, Head(text)), acc)

PathOf(text) ==
    [abs |-> text # <<>> /\ Head(text) = "/", parts |-> SplitComponents(text, <<>>, <<>>)]

\* parent / other
PathJoin(dir, other) ==
    IF other.abs THEN other ELSE [abs |-> dir.abs, parts |-> dir.parts \o other.parts]

\* Path.resolve() of an absolute path on a disk without symbolic links: ".."
\* drops the component before it and is dropped at the root
RECURSIVE Normalize(_, _)
Normalize(parts, acc) ==
    IF parts = <<>> THEN acc
    ELSE IF Head(parts) = <<".", ".">>
         THEN Normalize(Tail(parts),
                        IF acc = <<>> THEN acc ELSE SubSeq(acc, 1, Len(acc) - 1))
         ELSE Normalize(Tail(parts), Append(acc, Head(parts)))

PathResolve(path) == [abs |-> TRUE, parts |-> Normalize(path.parts, <<>>)]

NoPath == [abs |-> FALSE, parts |-> <<>>]

\* "if href_value:" is false for None and for the empty string
HrefGiven(href_value) == href_value # None /\ href_value # <<>>

\* a resolution that drops the directory part of the href
CandidateXslPathNameOnly(xml_path, href_value) ==
    PathResolve(PathJoin(PathParent(xml_path), PathOf(GetExpectedXslName(xml_path))))

CandidateXslPath(xml_path, href_value) ==
    IF HrefGiven(href_value)
    THEN PathResolve(PathJoin(PathParent(xml_path), PathOf(href_value)))
    ELSE PathResolve(PathJoin(PathParent(xml_path), PathOf(GetExpectedXslName(xml_path))))

\* an existence test that always succeeds
PathExistsUnchecked(files, path) == TRUE

PathExists(files, path) == path \in files

ResolveXslPath(xml_path, xml_tree, files) ==
    LET expected_xsl_name == GetExpectedXslName(xml_path)
        read == ReadStylesheetHrefFromPi(xml_tree)
        href_value == read.href
    IN  IF read.kind # "ok"
        THEN [kind |-> "ValueError", why |-> "quotation", path |-> NoPath]
        ELSE IF HrefGiven(href_value)
                /\ PathName(PathOf(href_value)) # expected_xsl_name
        THEN [kind |-> "ValueError", why |-> "policy", path |-> NoPath]
        ELSE LET xsl_path == CandidateXslPath(xml_path, href_value)
             IN  IF ~PathExists(files, xsl_path)
                 THEN [kind |-> "FileNotFoundError", why |-> "stylesheet", path |-> NoPath]
                 ELSE [kind |-> "return", why |-> "", path |-> xsl_path]

(***************************************************************************)
(* Inputs of the post-processing helpers: markup made of at most MaxChunks *)
(* pieces, among them tags in either case, an unterminated tag and a       *)
(* character whose lower case is longer than itself.                       *)
(***************************************************************************)
Chunks ==
    { <<"<","h","e","a","d">>,
      <<"<","H","E","A","D",">">>,
      <<">">>,
      <<"<","/","H","E","A","D",">">>,
      <<"U+0130">>,
      <<"x">>,
      <<"<","M","E","T","A"," ","c","h","a","r","s","e","t","=","u">> }

RECURSIVE Concat(_)
Concat(ss) == IF ss = <<>> THEN <<>> ELSE Head(ss) \o Concat(Tail(ss))

Markups ==
    { Concat(ss) : ss \in UNION { [1..n -> Chunks] : n \in 0..MaxChunks } }

IdleMarkup ==
    /\ mIn = <<>>
    /\ mEnc = UTF8
    /\ mOut = <<>>
    /\ mPrev = <<>>
    /\ mOp = "idle"

InitMarkup ==
    /\ mIn \in Markups
    /\ mEnc \in {UTF8, ShiftJIS}
    /\ mOut = <<>>
    /\ mPrev = <<>>
    /\ mOp = "input"

CallInjectCustomCss ==
    /\ mOp = "input"
    /\ mPrev' = mIn
    /\ mOut' = InjectCustomCss(mIn)
    /\ mOp' = "css"
    /\ UNCHANGED <<mIn, mEnc, charsetVars, resolveVars, fileVars, extraVars>>

CallInjectMetaCharset ==
    /\ mOp = "input"
    /\ mPrev' = mIn
    /\ mOut' = InjectMetaCharset(mIn, mEnc)
    /\ mOp' = "meta"
    /\ UNCHANGED <<mIn, mEnc, charsetVars, resolveVars, fileVars, extraVars>>

\* a second call, on the result of the first, with the same charset
CallInjectMetaCharsetAgain ==
    /\ mOp = "meta"
    /\ mPrev' = mOut
    /\ mOut' = InjectMetaCharset(mOut, mEnc)
    /\ mOp' = "meta2"
    /\ UNCHANGED <<mIn, mEnc, charsetVars, resolveVars, fileVars, extraVars>>

(***************************************************************************)
(* Inputs of _normalize_charset: None, or a name with at most MaxPad       *)
(* white-space characters on either side.                                  *)
(***************************************************************************)
Pads == UNION { [1..n -> {" ", "\n"}] : n \in 0..MaxPad }

CharsetCores ==
    { <<>>,
      <<"s","j","i","s">>,
      <<"S","J","I","S">>,
      <<"S","h","i","f","t","-","J","I","S">>,
      <<"s","h","i","f","t","_","j","i","s">>,
      <<"m","s","9","3","2">>,
      <<"C","P","9","3","2">>,
      <<"u","t","f","-","8">>,
      <<"E","U","C","-","J","P">> }

CharsetInputs ==
    {None} \cup { l \o c \o r : l \in Pads, c \in CharsetCores, r \in Pads }

IdleCharset ==
    /\ nIn = None
    /\ nOut = None
    /\ nOp = "idle"

InitCharset ==
    /\ nIn \in CharsetInputs
    /\ nOut = None
    /\ nOp = "input"

CallNormalizeCharset ==
    /\ nOp = "input"
    /\ nOut' = NormalizeCharset(nIn)
    /\ nOp' = "done"
    /\ UNCHANGED <<nIn, markupVars, resolveVars, fileVars, extraVars>>

(***************************************************************************)
(* Inputs of _resolve_xsl_path: an XML file in /d, at most MaxNodes nodes  *)
(* before its root, and any set of existing stylesheet files.              *)
(***************************************************************************)
AbsPath(parts) == [abs |-> TRUE, parts |-> parts]

XmlPaths ==
    { AbsPath(<< <<"d">>, <<"f", ".", "xml">> >>),
      AbsPath(<< <<"d">>, <<"other", ".", "xml">> >>) }

XslPaths ==
    { AbsPath(<< <<"d">>, <<"f", ".", "xsl">> >>),
      AbsPath(<< <<"d">>, <<"other", ".", "xsl">> >>),
      AbsPath(<< <<"d">>, <<"sub">>, <<"f", ".", "xsl">> >>),
      AbsPath(<< <<"f", ".", "xsl">> >>) }

HrefAttr(value) == <<"href", "=", "\"">> \o value \o <<"\"">>

TypeAttr == <<"type", "=", "\"", "text", "/", "xsl", "\"">>

PiTexts ==
    { TypeAttr \o <<" ">> \o HrefAttr(<<"f", ".", "xsl">>),
      HrefAttr(<<"other", ".", "xsl">>),
      HrefAttr(<<"sub", "/", "f", ".", "xsl">>),
      HrefAttr(<<".", ".", "/", "f", ".", "xsl">>),
      HrefAttr(<<>>),
      <<"href", " ", "=", " ", "\"", "other", ".", "xsl", "\"">>,
      <<"href", "=", "\"", "other", ".", "xsl">>,
      TypeAttr,
      <<>> }

Nodes ==
    { [kind |-> "comment", target |-> "", text |-> <<"note">>],
      [kind |-> "pi", target |-> "xml-model", text |-> HrefAttr(<<"other", ".", "xsl">>)] }
    \cup { [kind |-> "pi", target |-> "xml-stylesheet", text |-> t] : t \in PiTexts }

Prologs == UNION { [1..n -> Nodes] : n \in 0..MaxNodes }

IdleResolve ==
    /\ rXml = NoPath
    /\ rTree = <<>>
    /\ rFiles = {}
    /\ rOut = [kind |-> "none", why |-> "", path |-> NoPath]
    /\ rHref = [kind |-> "none", href |-> None]
    /\ rOp = "idle"

InitResolve ==
    /\ rXml \in XmlPaths
    /\ rTree \in Prologs
    /\ rFiles \in SUBSET XslPaths
    /\ rOut = [kind |-> "none", why |-> "", path |-> NoPath]
    /\ rHref = [kind |-> "none", href |-> None]
    /\ rOp = "input"

CallResolveXslPath ==
    /\ rOp = "input"
    /\ rOut' = ResolveXslPath(rXml, rTree, rFiles)
    /\ rOp' = "done"
    /\ UNCHANGED <<rXml, rTree, rFiles, rHref, markupVars, charsetVars, fileVars,
                   extraVars>>

CallReadStylesheetHrefFromPi ==
    /\ rOp = "input"
    /\ rHref' = ReadStylesheetHrefFromPi(rTree)
    /\ rOp' = "read"
    /\ UNCHANGED <<rXml, rTree, rFiles, rOut, markupVars, charsetVars, fileVars,
                   extraVars>>

(***************************************************************************)
(* transform_to_html_file, step by step, on a disk that other programs     *)
(* change between the steps.                                               *)
(***************************************************************************)
Absent == [type |-> "absent"]

\* PurePath.with_suffix
WithSuffix(path, suffix) ==
    [path EXCEPT !.parts[Len(path.parts)] = Stem(PathName(path)) \o suffix]

\* what str.encode(out_enc, errors="replace") cannot encode becomes "?"
Encodable(c, codec) == codec = <<"u","t","f","-","8">> \/ c \notin {"U+0130", "U+0307"}

EncodeReplace(html, out_enc) ==
    [i \in 1..Len(html) |-> IF Encodable(html[i], Lower(out_enc)) THEN html[i] ELSE "?"]

\* the try block of _get_output_encoding_from_xsl on the content found at
\* xsl_path: etree.parse raises on a missing or unparsable file; with an
\* xsl:output element the normalized encoding attribute is returned (None when
\* the attribute is missing); otherwise the block falls through
ReadOutputEncoding(content) ==
    IF content.type = "absent" THEN [kind |-> "OSError", value |-> <<>>]
    ELSE IF content.type # "xsl" \/ ~content.wellformed
         THEN [kind |-> "XMLSyntaxError", value |-> <<>>]
    ELSE IF content.output
         THEN [kind |-> "return", value |-> NormalizeCharset(content.encoding)]
    ELSE [kind |-> "fallthrough", value |-> <<>>]

\* the same without the except clause: what the try block raises propagates
GetOutputEncodingOutcomeUncaught(content) ==
    LET r == ReadOutputEncoding(content)
    IN  IF r.kind = "fallthrough" THEN [kind |-> "return", value |-> UTF8] ELSE r

\* _get_output_encoding_from_xsl: "except Exception: pass", then return "UTF-8"
GetOutputEncodingOutcome(content) ==
    LET r == ReadOutputEncoding(content)
    IN  IF r.kind = "return" THEN r ELSE [kind |-> "return", value |-> UTF8]

\* the value _get_output_encoding_from_xsl hands to its caller
GetOutputEncodingFromXsl(content) == GetOutputEncodingOutcome(content).value

ExistingFiles(d) == {p \in DOMAIN d : d[p].type # "absent"}

NoCall ==
    [xml_path |-> NoPath, output_path |-> NoPath, xml_tree |-> <<>>,
     xsl_path |-> NoPath, html_str |-> <<>>, out_enc |-> <<>>, error |-> ""]

Raise(kind) ==
    /\ pc' = "failed"
    /\ call' = [NoCall EXCEPT !.xml_path = call.xml_path,
                              !.output_path = call.output_path,
                              !.error = kind]

\* a loader without the exists() test: the parser is handed the missing file
LoadXmlTreeUnchecked(content) ==
    IF content.type = "absent" THEN [kind |-> "OSError", tree |-> <<>>]
    ELSE IF content.type # "xml" \/ ~content.wellformed
         THEN [kind |-> "XMLSyntaxError", tree |-> <<>>]
    ELSE [kind |-> "return", tree |-> content.prolog]

\* _load_xml_tree: the outcome on the content found at xml_path
LoadXmlTree(content) ==
    IF content.type = "absent" THEN [kind |-> "FileNotFoundError", tree |-> <<>>]
    ELSE IF content.type # "xml" \/ ~content.wellformed
         THEN [kind |-> "XMLSyntaxError", tree |-> <<>>]
    ELSE [kind |-> "return", tree |-> content.prolog]

\* an output file opened for writing before anything is checked
BeginTruncating(xml_path, output_path) ==
    /\ pc = "idle"
    /\ pc' = "load1"
    /\ call' = [NoCall EXCEPT !.xml_path = xml_path, !.output_path = output_path]
    /\ disk' = [disk EXCEPT ![IF output_path = NoPath
                               THEN WithSuffix(xml_path, <<".", "html">>)
                               ELSE output_path] =
                        [type |-> "html", codec |-> <<>>, text |-> <<>>]]
    /\ UNCHANGED otherVars

\* transform_to_html_file(xml_path, output_path) is called; NoPath stands for
\* an omitted output_path
Begin(xml_path, output_path) ==
    /\ pc = "idle"
    /\ pc' = "load1"
    /\ call' = [NoCall EXCEPT !.xml_path = xml_path, !.output_path = output_path]
    /\ UNCHANGED <<disk, otherVars>>

\* transform_to_html_string: _load_xml_tree
Load1 ==
    /\ pc = "load1"
    /\ LET r == LoadXmlTree(disk[call.xml_path])
       IN  IF r.kind # "return" THEN Raise(r.kind)
           ELSE /\ pc' = "resolve1"
                /\ call' = [call EXCEPT !.xml_tree = r.tree]
    /\ UNCHANGED <<disk, otherVars>>

\* a resolution that is skipped when the destination already holds the output
\* of an earlier call: the stylesheet beside the document is taken as before
Resolve1Remembering ==
    /\ pc = "resolve1"
    /\ LET r == ResolveXslPath(call.xml_path, call.xml_tree, ExistingFiles(disk))
           dest == IF call.output_path = NoPath
                   THEN WithSuffix(call.xml_path, <<".", "html">>)
                   ELSE call.output_path
       IN  IF disk[dest].type = "html"
           THEN /\ pc' = "transform"
                /\ call' = [call EXCEPT !.xsl_path = WithSuffix(call.xml_path, <<".", "xsl">>)]
           ELSE IF r.kind # "return" THEN Raise(r.kind)
           ELSE /\ pc' = "transform"
                /\ call' = [call EXCEPT !.xsl_path = r.path]
    /\ UNCHANGED <<disk, otherVars>>

\* transform_to_html_string: _resolve_xsl_path
Resolve1 ==
    /\ pc = "resolve1"
    /\ LET r == ResolveXslPath(call.xml_path, call.xml_tree, ExistingFiles(disk))
       IN  IF r.kind # "return" THEN Raise(r.kind)
           ELSE /\ pc' = "transform"
                /\ call' = [call EXCEPT !.xsl_path = r.path]
    /\ UNCHANGED <<disk, otherVars>>

\* str(result_tree): the library turns the result into a string with the
\* encoding the stylesheet declares; the library is not part of the source,
\* so for a declared name that Python has no codec for both outcomes are
\* kept: the conversion raises LookupError, or it returns
ResultStringOutcomes(xsl) ==
    IF xsl.output /\ xsl.encoding # None /\ ~CodecLookup(NormalizeCharset(xsl.encoding))
    THEN {"LookupError", "return"}
    ELSE {"return"}

\* transform_to_html_string: the stylesheet is parsed, compiled and applied,
\* the result is made a string and _inject_custom_css is applied to it; the
\* locals of transform_to_html_string end here
Transform ==
    /\ pc = "transform"
    /\ LET xsl == IF call.xsl_path \in DOMAIN disk THEN disk[call.xsl_path] ELSE Absent
       IN  IF xsl.type = "absent" THEN Raise("OSError")
           ELSE IF xsl.type # "xsl" \/ ~xsl.wellformed THEN Raise("XMLSyntaxError")
           ELSE IF ~xsl.applies THEN Raise("XSLTApplyError")
           ELSE \E o \in ResultStringOutcomes(xsl) :
                    IF o # "return" THEN Raise(o)
                    ELSE /\ pc' = "load2"
                         /\ call' = [call EXCEPT !.xml_tree = <<>>,
                                                 !.xsl_path = NoPath,
                                                 !.html_str = InjectCustomCss(xsl.markup)]
    /\ UNCHANGED <<disk, otherVars>>

\* transform_to_html_file: _load_xml_tree again
Load2 ==
    /\ pc = "load2"
    /\ LET r == LoadXmlTree(disk[call.xml_path])
       IN  IF r.kind # "return" THEN Raise(r.kind)
           ELSE /\ pc' = "resolve2"
                /\ call' = [call EXCEPT !.xml_tree = r.tree]
    /\ UNCHANGED <<disk, otherVars>>

\* transform_to_html_file: _resolve_xsl_path again
Resolve2 ==
    /\ pc = "resolve2"
    /\ LET r == ResolveXslPath(call.xml_path, call.xml_tree, ExistingFiles(disk))
       IN  IF r.kind # "return" THEN Raise(r.kind)
           ELSE /\ pc' = "encoding"
                /\ call' = [call EXCEPT !.xsl_path = r.path]
    /\ UNCHANGED <<disk, otherVars>>

\* transform_to_html_file: _get_output_encoding_from_xsl, _inject_meta_charset
\* and the choice of the output path
ReadEncoding ==
    /\ pc = "encoding"
    /\ LET xsl == IF call.xsl_path \in DOMAIN disk THEN disk[call.xsl_path] ELSE Absent
           out_enc == GetOutputEncodingFromXsl(xsl)
       IN  /\ pc' = "write"
           /\ call' = [call EXCEPT
                           !.out_enc = out_enc,
                           !.html_str = InjectMetaCharset(call.html_str, out_enc),
                           !.output_path =
                               IF call.output_path = NoPath
                               THEN WithSuffix(call.xml_path, <<".", "html">>)
                               ELSE call.output_path]
    /\ UNCHANGED <<disk, otherVars>>

\* transform_to_html_file: encode, then write_bytes; the write itself may be
\* refused by the system
Write ==
    /\ pc = "write"
    /\ IF ~CodecLookup(call.out_enc) THEN Raise("LookupError") /\ UNCHANGED disk
       ELSE \/ Raise("OSError") /\ UNCHANGED disk
            \/ /\ disk' = [disk EXCEPT ![call.output_path] =
                               [type |-> "html",
                                codec |-> Lower(call.out_enc),
                                text |-> EncodeReplace(call.html_str, call.out_enc)]]
               /\ pc' = "done"
               /\ call' = [call EXCEPT !.xml_tree = <<>>, !.xsl_path = NoPath]
    /\ UNCHANGED otherVars

\* the call has returned or raised; the caller may call again
Finish ==
    /\ pc \in {"done", "failed"}
    /\ pc' = "idle"
    /\ call' = NoCall
    /\ UNCHANGED <<disk, otherVars>>

FXml == AbsPath(<< <<"d">>, <<"f", ".", "xml">> >>)
FXsl == AbsPath(<< <<"d">>, <<"f", ".", "xsl">> >>)
FHtml == AbsPath(<< <<"d">>, <<"f", ".", "html">> >>)
FOut == AbsPath(<< <<"tmp">>, <<"out", ".", "html">> >>)

OutputPaths == {FHtml, FOut}

StylesheetPi(text) == [kind |-> "pi", target |-> "xml-stylesheet", text |-> text]

XmlContents ==
    { [type |-> "xml", wellformed |-> FALSE, prolog |-> <<>>],
      [type |-> "xml", wellformed |-> TRUE, prolog |-> <<>>],
      [type |-> "xml", wellformed |-> TRUE,
       prolog |-> <<StylesheetPi(HrefAttr(<<"other", ".", "xsl">>))>>] }

\* <HEAD></HEAD>x
PlainMarkup == <<"<","H","E","A","D",">","<","/","H","E","A","D",">","x">>

\* <head><meta charset="UTF-8"></head> followed by U+0130
DeclaringMarkup ==
    <<"<","h","e","a","d",">">> \o MetaTag(UTF8) \o HeadCloseTag \o <<"U+0130">>

XslContents ==
    { [type |-> "xsl", wellformed |-> FALSE, applies |-> FALSE, output |-> FALSE,
       encoding |-> None, markup |-> <<>>],
      [type |-> "xsl", wellformed |-> TRUE, applies |-> FALSE, output |-> FALSE,
       encoding |-> None, markup |-> <<>>],
      [type |-> "xsl", wellformed |-> TRUE, applies |-> TRUE, output |-> FALSE,
       encoding |-> None, markup |-> PlainMarkup],
      [type |-> "xsl", wellformed |-> TRUE, applies |-> TRUE, output |-> TRUE,
       encoding |-> <<"s","j","i","s">>, markup |-> DeclaringMarkup],
      [type |-> "xsl", wellformed |-> TRUE, applies |-> TRUE, output |-> TRUE,
       encoding |-> <<" ">>, markup |-> PlainMarkup] }

Allowed(p) ==
    IF p = FXml THEN XmlContents
    ELSE IF p = FXsl THEN XslContents
    ELSE {}

\* another program writes or deletes a source file
EnvWrite(p, content) ==
    /\ content \in Allowed(p)
    /\ disk[p] # content
    /\ disk' = [disk EXCEPT ![p] = content]
    /\ UNCHANGED <<pc, call, otherVars>>

EnvDelete(p) ==
    /\ Allowed(p) # {}
    /\ disk[p] # Absent
    /\ disk' = [disk EXCEPT ![p] = Absent]
    /\ UNCHANGED <<pc, call, otherVars>>

IdleFile ==
    /\ disk = << >>
    /\ pc = "off"
    /\ call = NoCall

InitFile ==
    /\ disk \in [{FXml, FXsl, FHtml, FOut} -> {Absent}]
    /\ pc = "idle"
    /\ call = NoCall

NextFile ==
    \/ \E out \in {NoPath, FOut} : Begin(FXml, out)
    \/ Load1
    \/ Resolve1
    \/ Transform
    \/ Load2
    \/ Resolve2
    \/ ReadEncoding
    \/ Write
    \/ Finish
    \/ \E p \in {FXml, FXsl} :
          \/ \E c \in Allowed(p) : EnvWrite(p, c)
          \/ EnvDelete(p)

(***************************************************************************)
(* The specification of _get_output_encoding_from_xsl: the stylesheet path *)
(* holds nothing, an unparsable file, or a stylesheet with or without an   *)
(* xsl:output element, whose encoding attribute is missing (None) or one   *)
(* of the charset inputs.                                                  *)
(***************************************************************************)
EncodingInputs ==
    {Absent}
    \cup { [type |-> "xsl", wellformed |-> w, output |-> FALSE, encoding |-> None] :
              w \in BOOLEAN }
    \cup { [type |-> "xsl", wellformed |-> TRUE, output |-> TRUE, encoding |-> e] :
              e \in CharsetInputs }

IdleEncoding ==
    /\ xIn = Absent
    /\ xOut = [kind |-> "", value |-> <<>>]
    /\ xOp = "off"

InitEncoding ==
    /\ xIn \in EncodingInputs
    /\ xOut = [kind |-> "", value |-> <<>>]
    /\ xOp = "input"

CallGetOutputEncodingFromXsl ==
    /\ xOp = "input"
    /\ xOut' = GetOutputEncodingOutcome(xIn)
    /\ xOp' = "done"
    /\ UNCHANGED <<xIn, markupVars, charsetVars, resolveVars, fileVars, previewVars,
                   concVars, navVars>>

(***************************************************************************)
(* The preview files of the main window (src/main_window.py): open_xml     *)
(* renders a document into the file _get_preview_html_path derives from    *)
(* its path.  The digits of a SHA-1 value are written as one character     *)
(* run, as are the digits of a folder name.                                *)
(***************************************************************************)
APP_NAME == <<"XmlStyledViewer">>

\* Path(tempfile.gettempdir()) / self.APP_NAME
TempRoot == AbsPath(<< <<"tmp">>, APP_NAME >>)

DocPath(folder, name) == AbsPath(<< <<"docs">>, <<folder>>, <<name, ".", "xml">> >>)

\* the documents the user opens
PreviewDocs ==
    { DocPath("0", "f"), DocPath("1", "f"), DocPath("0", "g"), DocPath("1", "g"),
      DocPath("1096635", "f"), DocPath("1356616", "f") }

\* hashlib.sha1(str(xml_path).encode("utf-8")).hexdigest()[:10], tabulated for
\* the documents above: /docs/0/f.xml, /docs/1/f.xml, /docs/0/g.xml, ...
Sha1Hex10(xml_path) ==
    CASE xml_path = DocPath("0", "f") -> "11c253c840"
      [] xml_path = DocPath("1", "f") -> "39dd1d3d6e"
      [] xml_path = DocPath("0", "g") -> "b55fb0dd87"
      [] xml_path = DocPath("1", "g") -> "4e99e60b0a"
      [] xml_path = DocPath("1096635", "f") -> "84a73a2759"
      [] xml_path = DocPath("1356616", "f") -> "84a73a2759"

\* _get_preview_html_path
GetPreviewHtmlPath(xml_path) ==
    PathJoin(TempRoot,
             [abs |-> FALSE,
              parts |-> << Stem(PathName(xml_path)) \o <<"__preview__">>
                           \o <<Sha1Hex10(xml_path)>> \o <<".", "html">> >>])

PreviewFiles == { GetPreviewHtmlPath(x) : x \in PreviewDocs }

IdlePreview ==
    /\ current_xml = NoPath
    /\ view = NoPath
    /\ previews = << >>

InitPreview ==
    /\ current_xml = NoPath
    /\ view = NoPath
    /\ previews = [f \in PreviewFiles |-> NoPath]

\* open_xml(xml_path): exists tells whether the file is there, ok whether
\* transform_to_html_file returned
OpenXml(xml_path, exists, ok) ==
    /\ IF ~exists THEN UNCHANGED previewVars
       ELSE /\ current_xml' = xml_path
            /\ IF ok
               THEN /\ previews' =
                          [previews EXCEPT ![GetPreviewHtmlPath(xml_path)] = xml_path]
                    /\ view' = GetPreviewHtmlPath(xml_path)
               ELSE /\ view' = NoPath
                    /\ UNCHANGED previews
    /\ UNCHANGED <<markupVars, charsetVars, resolveVars, fileVars, encodingVars,
                   concVars, navVars>>

NextPreview ==
    \E x \in PreviewDocs, exists \in BOOLEAN, ok \in BOOLEAN : OpenXml(x, exists, ok)

(***************************************************************************)
(* Two callers run transform_to_html_file on one transformer at the same   *)
(* time.  The method keeps everything in local variables and only reads    *)
(* self, so a caller's step depends on its own locals and on the           *)
(* filesystem; the steps are those of the single call above, and the       *)
(* steps of the two callers interleave.                                    *)
(***************************************************************************)
Procs == {1, 2}

FileAt(d, p) == IF p \in DOMAIN d THEN d[p] ELSE Absent

\* the locals of a call that has raised
Failed(c, kind) ==
    [NoCall EXCEPT !.xml_path = c.xml_path,
                   !.output_path = c.output_path,
                   !.error = kind]

\* output_path when given, else xml_path_p.with_suffix(".html")
DestOf(c) ==
    IF c.output_path = NoPath THEN WithSuffix(c.xml_path, <<".", "html">>)
    ELSE c.output_path

\* the step of transform_to_html_file at position stage with locals c on the
\* filesystem d: the positions, locals and filesystems it can lead to
CallSteps(stage, c, d) ==
    CASE stage \in {"load1", "load2"} ->
           LET r == LoadXmlTree(FileAt(d, c.xml_path))
           IN  { IF r.kind # "return"
                 THEN [pc |-> "failed", call |-> Failed(c, r.kind), disk |-> d]
                 ELSE [pc |-> IF stage = "load1" THEN "resolve1" ELSE "resolve2",
                       call |-> [c EXCEPT !.xml_tree = r.tree], disk |-> d] }
      [] stage \in {"resolve1", "resolve2"} ->
           LET r == ResolveXslPath(c.xml_path, c.xml_tree, ExistingFiles(d))
           IN  { IF r.kind # "return"
                 THEN [pc |-> "failed", call |-> Failed(c, r.kind), disk |-> d]
                 ELSE [pc |-> IF stage = "resolve1" THEN "transform" ELSE "encoding",
                       call |-> [c EXCEPT !.xsl_path = r.path], disk |-> d] }
      [] stage = "transform" ->
           LET xsl == FileAt(d, c.xsl_path)
           IN  IF xsl.type = "absent"
               THEN {[pc |-> "failed", call |-> Failed(c, "OSError"), disk |-> d]}
               ELSE IF xsl.type # "xsl" \/ ~xsl.wellformed
               THEN {[pc |-> "failed", call |-> Failed(c, "XMLSyntaxError"), disk |-> d]}
               ELSE IF ~xsl.applies
               THEN {[pc |-> "failed", call |-> Failed(c, "XSLTApplyError"), disk |-> d]}
               ELSE { IF o # "return"
                      THEN [pc |-> "failed", call |-> Failed(c, o), disk |-> d]
                      ELSE [pc |-> "load2",
                            call |-> [c EXCEPT !.xml_tree = <<>>,
                                               !.xsl_path = NoPath,
                                               !.html_str = InjectCustomCss(xsl.markup)],
                            disk |-> d] : o \in ResultStringOutcomes(xsl) }
      [] stage = "encoding" ->
           LET out_enc == GetOutputEncodingFromXsl(FileAt(d, c.xsl_path))
           IN  { [pc |-> "write",
                  call |-> [c EXCEPT !.out_enc = out_enc,
                                     !.html_str = InjectMetaCharset(c.html_str, out_enc),
                                     !.output_path = DestOf(c)],
                  disk |-> d] }
      [] stage = "write" ->
           IF ~CodecLookup(c.out_enc)
           THEN {[pc |-> "failed", call |-> Failed(c, "LookupError"), disk |-> d]}
           ELSE { [pc |-> "failed", call |-> Failed(c, "OSError"), disk |-> d],
                  [pc |-> "done",
                   call |-> [c EXCEPT !.xml_tree = <<>>, !.xsl_path = NoPath],
                   disk |-> [d EXCEPT ![c.output_path] =
                                [type |-> "html",
                                 codec |-> Lower(c.out_enc),
                                 text |-> EncodeReplace(c.html_str, c.out_enc)]]] }

GXml == AbsPath(<< <<"d">>, <<"g", ".", "xml">> >>)
GXsl == AbsPath(<< <<"d">>, <<"g", ".", "xsl">> >>)
GHtml == AbsPath(<< <<"d">>, <<"g", ".", "html">> >>)

\* the XML path each caller passes
XmlOf(i) == IF i = 1 THEN FXml ELSE GXml

\* the output_path arguments each caller may pass; NoPath for none
OutputsOf(i) == IF i = 1 THEN {NoPath, FOut, GXsl} ELSE {NoPath}

ConcXmlContents == {c \in XmlContents : c.wellformed /\ c.prolog = <<>>}

ConcXslContents == {c \in XslContents : c.applies /\ CodecLookup(NormalizeCharset(c.encoding))}

IdleConc ==
    /\ cdisk0 = << >>
    /\ cdisk = << >>
    /\ cpc = << >>
    /\ ccall = << >>

ConcFiles == {FXml, FXsl, FHtml, FOut, GXml, GXsl, GHtml}

\* the filesystems the callers may start on: each source file is missing or
\* holds one of the contents, no output file exists yet
ConcDisks ==
    { [p \in ConcFiles |->
          IF p = FXml THEN a ELSE IF p = FXsl THEN b
          ELSE IF p = GXml THEN c ELSE IF p = GXsl THEN e ELSE Absent] :
      a \in ConcXmlContents \cup {Absent}, b \in ConcXslContents \cup {Absent},
      c \in ConcXmlContents \cup {Absent}, e \in ConcXslContents \cup {Absent} }

InitConc ==
    /\ cdisk0 \in ConcDisks
    /\ cdisk = cdisk0
    /\ cpc = [i \in Procs |-> "idle"]
    /\ ccall = [i \in Procs |-> NoCall]

\* caller i calls transform_to_html_file(xml_path, output_path)
CBegin(i, xml_path, output_path) ==
    /\ cpc[i] = "idle"
    /\ cpc' = [cpc EXCEPT ![i] = "load1"]
    /\ ccall' = [ccall EXCEPT ![i] = [NoCall EXCEPT !.xml_path = xml_path,
                                                    !.output_path = output_path]]
    /\ UNCHANGED <<cdisk0, cdisk, markupVars, charsetVars, resolveVars, fileVars,
                   encodingVars, previewVars, navVars>>

\* a step that takes the markup from whichever call produced markup last, as
\* if html_str were an attribute of the transformer
CStepSharedMarkup(i) ==
    /\ cpc[i] \notin {"idle", "done", "failed"}
    /\ LET j == CHOOSE k \in Procs : k # i
           c == IF cpc[i] = "write" /\ ccall[j].html_str # <<>>
                THEN [ccall[i] EXCEPT !.html_str = ccall[j].html_str]
                ELSE ccall[i]
       IN  \E o \in CallSteps(cpc[i], c, cdisk) :
               /\ cpc' = [cpc EXCEPT ![i] = o.pc]
               /\ ccall' = [ccall EXCEPT ![i] = o.call]
               /\ cdisk' = o.disk
    /\ UNCHANGED <<cdisk0, markupVars, charsetVars, resolveVars, fileVars,
                   encodingVars, previewVars, navVars>>

\* caller i takes the next step of its call
CStep(i) ==
    /\ cpc[i] \notin {"idle", "done", "failed"}
    /\ \E o \in CallSteps(cpc[i], ccall[i], cdisk) :
           /\ cpc' = [cpc EXCEPT ![i] = o.pc]
           /\ ccall' = [ccall EXCEPT ![i] = o.call]
           /\ cdisk' = o.disk
    /\ UNCHANGED <<cdisk0, markupVars, charsetVars, resolveVars, fileVars,
                   encodingVars, previewVars, navVars>>

NextConc ==
    \/ \E i \in Procs : \E out \in OutputsOf(i) : CBegin(i, XmlOf(i), out)
    \/ \E i \in Procs : CStep(i)

(***************************************************************************)
(* Folder navigation of the main window (src/main_window.py): the history  *)
(* of visited folders with its index, and the folder the tree shows.       *)
(* Other programs create and remove folders in between.                    *)
(***************************************************************************)
Root == AbsPath(<<>>)

Folders ==
    { Root, AbsPath(<< <<"a">> >>), AbsPath(<< <<"b">> >>),
      AbsPath(<< <<"a">>, <<"c">> >>) }

\* folder is f or lies below it
Below(folder, f) ==
    /\ Len(f.parts) <= Len(folder.parts)
    /\ SubSeq(folder.parts, 1, Len(f.parts)) = f.parts

\* _navigate_to_folder(folder_path, push_history), entered with history h and
\* index i: nothing happens for a folder that is not there; otherwise the
\* history is cut after the index and extended, unless its last entry is the
\* folder already, and the tree is filled, which sets current_folder
NavigateToFolder(h, i, folder_path, push_history) ==
    IF folder_path \notin dirs
    THEN /\ folder_history' = h
         /\ folder_history_index' = i
         /\ UNCHANGED current_folder
    ELSE LET cut == IF push_history /\ 0 <= i /\ i < Len(h) - 1
                    THEN SubSeq(h, 1, i + 1) ELSE h
             append == push_history /\ ~(cut # <<>> /\ cut[Len(cut)] = folder_path)
         IN  /\ append => Len(cut) < MaxHistory
             /\ folder_history' = IF append THEN Append(cut, folder_path) ELSE cut
             /\ folder_history_index' = IF append THEN Len(cut) ELSE i
             /\ current_folder' = folder_path

\* _on_open_folder_clicked with the folder picked in the dialog; _on_open_file_menu
\* and open_xml_via_drop navigate the same way to the folder of the file
OnOpenFolder(folder_path) ==
    /\ NavigateToFolder(folder_history, folder_history_index, folder_path, TRUE)
    /\ UNCHANGED <<dirs, markupVars, charsetVars, resolveVars, fileVars,
                   encodingVars, previewVars, concVars>>

\* _on_folder_back
OnFolderBack ==
    /\ IF folder_history_index <= 0
       THEN UNCHANGED <<current_folder, folder_history, folder_history_index>>
       ELSE NavigateToFolder(folder_history, folder_history_index - 1,
                             folder_history[folder_history_index], FALSE)
    /\ UNCHANGED <<dirs, markupVars, charsetVars, resolveVars, fileVars,
                   encodingVars, previewVars, concVars>>

\* _on_folder_forward
OnFolderForward ==
    /\ IF \/ folder_history_index < 0
          \/ folder_history_index >= Len(folder_history) - 1
       THEN UNCHANGED <<current_folder, folder_history, folder_history_index>>
       ELSE NavigateToFolder(folder_history, folder_history_index + 1,
                             folder_history[folder_history_index + 2], FALSE)
    /\ UNCHANGED <<dirs, markupVars, charsetVars, resolveVars, fileVars,
                   encodingVars, previewVars, concVars>>

\* _on_folder_up
OnFolderUp ==
    /\ IF current_folder = NoPath \/ PathParent(current_folder) = current_folder
       THEN UNCHANGED <<current_folder, folder_history, folder_history_index>>
       ELSE NavigateToFolder(folder_history, folder_history_index,
                             PathParent(current_folder), TRUE)
    /\ UNCHANGED <<dirs, markupVars, charsetVars, resolveVars, fileVars,
                   encodingVars, previewVars, concVars>>

\* another program removes a folder with what is below it, or creates one
EnvRemoveDir(f) ==
    /\ f \in dirs \ {Root}
    /\ dirs' = {d \in dirs : ~Below(d, f)}
    /\ UNCHANGED <<current_folder, folder_history, folder_history_index,
                   markupVars, charsetVars, resolveVars, fileVars,
                   encodingVars, previewVars, concVars>>

EnvMakeDir(f) ==
    /\ f \notin dirs
    /\ PathParent(f) \in dirs
    /\ dirs' = dirs \cup {f}
    /\ UNCHANGED <<current_folder, folder_history, folder_history_index,
                   markupVars, charsetVars, resolveVars, fileVars,
                   encodingVars, previewVars, concVars>>

IdleNav ==
    /\ dirs = {}
    /\ current_folder = NoPath
    /\ folder_history = <<>>
    /\ folder_history_index = -1

InitNav ==
    /\ dirs = Folders
    /\ current_folder = NoPath
    /\ folder_history = <<>>
    /\ folder_history_index = -1

NextNav ==
    \/ \E f \in Folders : OnOpenFolder(f)
    \/ OnFolderBack
    \/ OnFolderForward
    \/ OnFolderUp
    \/ \E f \in Folders : EnvRemoveDir(f)
    \/ \E f \in Folders : EnvMakeDir(f)

IdleExtra == IdleEncoding /\ IdlePreview /\ IdleConc /\ IdleNav

FileInit == InitFile /\ IdleMarkup /\ IdleCharset /\ IdleResolve /\ IdleExtra

SpecFile == FileInit /\ [][NextFile]_vars

NextResolve ==
    \/ CallResolveXslPath
    \/ CallReadStylesheetHrefFromPi

ResolveInit == InitResolve /\ IdleMarkup /\ IdleCharset /\ IdleFile /\ IdleExtra

SpecResolve == ResolveInit /\ [][NextResolve]_vars

NextMarkup ==
    \/ CallInjectCustomCss
    \/ CallInjectMetaCharset
    \/ CallInjectMetaCharsetAgain

MarkupInit == InitMarkup /\ IdleCharset /\ IdleResolve /\ IdleFile /\ IdleExtra

SpecMarkup == MarkupInit /\ [][NextMarkup]_vars

NextCharset == CallNormalizeCharset

CharsetInit == InitCharset /\ IdleMarkup /\ IdleResolve /\ IdleFile /\ IdleExtra

SpecCharset == CharsetInit /\ [][NextCharset]_vars

NextEncoding == CallGetOutputEncodingFromXsl

IdleCore == IdleMarkup /\ IdleCharset /\ IdleResolve /\ IdleFile

EncodingInit == InitEncoding /\ IdleCore /\ IdlePreview /\ IdleConc /\ IdleNav

SpecEncoding == EncodingInit /\ [][NextEncoding]_vars

PreviewInit == InitPreview /\ IdleCore /\ IdleEncoding /\ IdleConc /\ IdleNav

SpecPreview == PreviewInit /\ [][NextPreview]_vars

ConcInit == InitConc /\ IdleCore /\ IdleEncoding /\ IdlePreview /\ IdleNav

SpecConc == ConcInit /\ [][NextConc]_vars

NavInit == InitNav /\ IdleCore /\ IdleEncoding /\ IdlePreview /\ IdleConc

SpecNav == NavInit /\ [][NextNav]_vars

(***************************************************************************)
(* Properties of the post-processing helpers and of the charset normalizer *)
(***************************************************************************)
\* 0-based index of the first occurrence of sub in s at or after start,
\* compared character by character ignoring case; -1 when there is none
FindCI(s, sub, start) ==
    LET hits == {i \in start..(Len(s) - Len(sub)) : StartsAtCI(s, sub, i)}
    IN  IF hits = {} THEN -1 ELSE CHOOSE i \in hits : \A j \in hits : i <= j

\* C7: _inject_meta_charset is idempotent: a second call with the same charset
\* finds a meta charset declaration in its input and returns it unchanged.
C7_MetaIdempotent ==
    mOp = "meta2" => (HasMetaCharset(mPrev) /\ mOut = mPrev)

\* a second call made on markup into which the first call inserted a tag after
\* a <head ...> opening tag
C7_Witness ==
    /\ mOp = "meta2"
    /\ ~HasMetaCharset(mIn)
    /\ FindCI(mIn, HeadOpenTag, 0) # -1
    /\ mPrev # MetaTag(mEnc) \o mIn
    /\ mOut = mPrev

\* C8: _inject_custom_css puts the style block immediately before the first
\* occurrence, ignoring case, of </head> in the input, or in front of the input
\* when there is none, and changes nothing else.
C8_StyleBeforeHeadClose ==
    mOp = "css" =>
        LET i == FindCI(mIn, HeadCloseTag, 0)
        IN  mOut = IF i = -1 THEN StyleBlock \o mIn
                   ELSE Slice(mIn, 0, i) \o StyleBlock \o Slice(mIn, i, Len(mIn))

\* C9: for markup without a meta charset declaration, _inject_meta_charset
\* puts the meta line right after the ">" closing the first <head tag, and in
\* front of the markup only when there is no <head tag (or that tag never
\* closes); nothing else changes.
C9_MetaAfterHeadOpen ==
    (mOp = "meta" /\ ~HasMetaCharset(mIn)) =>
        LET h == FindCI(mIn, HeadOpenTag, 0)
            g == IF h = -1 THEN -1 ELSE Find(mIn, <<">">>, h)
        IN  mOut = IF g = -1 THEN MetaTag(mEnc) \o mIn
                   ELSE Slice(mIn, 0, g + 1) \o <<"\n">> \o MetaTag(mEnc)
                            \o Slice(mIn, g + 1, Len(mIn))

\* C10: _normalize_charset returns UTF-8 for None and for the empty string,
\* Shift_JIS for the five aliases in any case, and the trimmed input otherwise;
\* the result is always a charset name the codec registry accepts.
C10_NormalizedIsUsable ==
    nOp = "done" =>
        /\ nOut = IF nIn = None \/ nIn = <<>> THEN UTF8
                  ELSE IF Lower(Strip(nIn)) \in ShiftJisAliases THEN ShiftJIS
                  ELSE Strip(nIn)
        /\ CodecLookup(nOut)

(***************************************************************************)
(* Properties of stylesheet resolution.                                    *)
(***************************************************************************)
StylesheetPis(prolog) ==
    {i \in 1..Len(prolog) :
        prolog[i].kind = "pi" /\ prolog[i].target = "xml-stylesheet"}

\* the href declared by the xml-stylesheet instruction nearest the root, read
\* as words "key=value"; None when there is no such instruction or no href
GoverningHref(prolog) ==
    LET pis == StylesheetPis(prolog)
    IN  IF pis = {} THEN None
        ELSE LET i == CHOOSE i \in pis : \A j \in pis : j <= i
                 split == ShlexSplit(prolog[i].text)
             IN  IF split.ok THEN AttrsGet(split.parts, HrefKey) ELSE None

\* name.xml -> name.xsl
SiblingXslName(xml_path) ==
    LET name == PathName(xml_path)
    IN  SubSeq(name, 1, Len(name) - 1) \o <<"xsl">>

\* name.xsl next to name.xml
SiblingXsl(xml_path) ==
    AbsPath(PathParent(xml_path).parts \o <<SiblingXslName(xml_path)>>)

LastComponent(href) == PathName(PathOf(href))

\* the href taken relative to the directory of the XML file
HrefTarget(xml_path, href) == PathResolve(PathJoin(PathParent(xml_path), PathOf(href)))

\* C1: a document whose governing xml-stylesheet instruction declares an href
\* whose file name is not <stem>.xsl makes _resolve_xsl_path fail with the
\* policy violation, whatever files exist; no path is returned.
C1_MismatchIsPolicyViolation ==
    (/\ rOp = "done"
     /\ GoverningHref(rTree) # None
     /\ LastComponent(GoverningHref(rTree)) # SiblingXslName(rXml))
        => (rOut.kind = "ValueError" /\ rOut.why = "policy")

\* C2: _resolve_xsl_path returns a path only if that path exists when it is
\* checked; when the candidate, from a matching href or from the convention,
\* does not exist the call fails with the not-found error.
C2_ReturnedPathExists ==
    rOp = "done" =>
        /\ rOut.kind = "return" => rOut.path \in rFiles
        /\ LET h == GoverningHref(rTree)
               candidate == IF h = None THEN SiblingXsl(rXml) ELSE HrefTarget(rXml, h)
           IN  (/\ StylesheetPis(rTree) = {} \/ h # None
                /\ h # None => LastComponent(h) = SiblingXslName(rXml)
                /\ candidate \notin rFiles)
                   => (rOut.kind = "FileNotFoundError" /\ rOut.path = NoPath)

\* a path returned while another candidate is missing, and a missing
\* candidate reported
C2_Witness ==
    /\ rOp = "done"
    /\ rOut.kind = "return"
    /\ rOut.path \in rFiles
    /\ rFiles # XslPaths

\* C3: for f.xml without any xml-stylesheet instruction and with f.xsl in the
\* same directory, _resolve_xsl_path returns the path of that f.xsl.
C3_ConventionalSibling ==
    (/\ rOp = "done"
     /\ StylesheetPis(rTree) = {}
     /\ SiblingXsl(rXml) \in rFiles)
        => (rOut.kind = "return" /\ rOut.path = SiblingXsl(rXml))

C3_Witness ==
    /\ rOp = "done"
    /\ StylesheetPis(rTree) = {}
    /\ rTree # <<>>
    /\ SiblingXsl(rXml) \in rFiles
    /\ rOut.kind = "return"

\* C4: when the declared href has the file name <stem>.xsl, _resolve_xsl_path
\* takes the whole href, directory part included, relative to the directory of
\* the XML file and returns that path whenever it exists, also when no f.xsl
\* lies next to the XML file.
C4_MatchingHrefKeepsDirectory ==
    (/\ rOp = "done"
     /\ GoverningHref(rTree) # None
     /\ LastComponent(GoverningHref(rTree)) = SiblingXslName(rXml)
     /\ HrefTarget(rXml, GoverningHref(rTree)) \in rFiles)
        => (rOut.kind = "return" /\ rOut.path = HrefTarget(rXml, GoverningHref(rTree)))

\* a stylesheet found in a declared directory while none lies next to the XML
C4_Witness ==
    /\ rOp = "done"
    /\ GoverningHref(rTree) # None
    /\ rOut.kind = "return"
    /\ rOut.path # SiblingXsl(rXml)
    /\ SiblingXsl(rXml) \notin rFiles

(***************************************************************************)
(* Properties of the written file.                                         *)
(***************************************************************************)
MetaCharsetStarts(text) == {i \in 0..(Len(text) - 1) : MetaCharsetAt(text, i)}

\* the charset named by the first meta charset declaration of the text: what
\* follows its "charset =", without quotes
DeclaredCharset(text) ==
    LET i == CHOOSE i \in MetaCharsetStarts(text) :
                 \A k \in MetaCharsetStarts(text) : i <= k
        names == {j \in (i + 6)..(Len(text) - 7) :
                     /\ StartsAtCI(text, CharsetWord, j)
                     /\ SkipSpace(text, j + 7) < Len(text)
                     /\ text[SkipSpace(text, j + 7) + 1] = "="}
        j == CHOOSE j \in names : \A k \in names : j <= k
        v == SkipSpace(text, j + 7) + 1
        from == IF v < Len(text) /\ text[v + 1] \in {"\"", "'"} THEN v + 1 ELSE v
        stops == {k \in from..(Len(text) - 1) : text[k + 1] \in {"\"", "'", ">", " "}}
        to == IF stops = {} THEN Len(text) ELSE CHOOSE k \in stops : \A m \in stops : k <= m
    IN  Slice(text, from, to)

\* C5: every file written by transform_to_html_file holds exactly one meta
\* charset declaration, and it names the encoding the bytes were written in.
C5_DeclaredCharsetIsFileEncoding ==
    \A p \in OutputPaths :
        (pc # "off" /\ disk[p].type = "html") =>
            /\ Cardinality(MetaCharsetStarts(disk[p].text)) = 1
            /\ Lower(DeclaredCharset(disk[p].text)) = disk[p].codec

\* C6: a step of transform_to_html_file other than its write step, and a step
\* in which the call fails, leaves the destination file as it was: neither
\* created nor modified.
C6_FailureLeavesDestination ==
    [][(pc # "off" /\ (pc # "write" \/ pc' = "failed"))
          => \A p \in OutputPaths : disk'[p] = disk[p]]_vars

\* a call refused for the naming policy, its destination still holding what an
\* earlier call wrote
C6_Witness ==
    /\ pc = "failed"
    /\ call.error = "ValueError"
    /\ call.output_path = FOut
    /\ disk[FOut].type = "html"
    /\ disk[FHtml].type = "absent"

\* the stylesheet declares an encoding: it parses, has an xsl:output element
\* and that element carries the encoding attribute
DeclaresEncoding(content) ==
    /\ content.type = "xsl"
    /\ content.wellformed
    /\ content.output
    /\ content.encoding # None

\* C11: _get_output_encoding_from_xsl never raises: for a missing file, an
\* unparsable file, a stylesheet without output directive and an output
\* directive without encoding attribute it returns "UTF-8"; with the
\* attribute present it returns the normalized value of the attribute.
C11_EncodingLookupNeverRaises ==
    xOp = "done" =>
        /\ xOut.kind = "return"
        /\ xOut.value = IF DeclaresEncoding(xIn)
                        THEN NormalizeCharset(xIn.encoding)
                        ELSE UTF8

\* the lookup has returned "UTF-8" for a stylesheet path that holds nothing
C11_Witness ==
    /\ xOp = "done"
    /\ xIn = Absent
    /\ xOut = [kind |-> "return", value |-> UTF8]
\* C12: for every markup and every encoding value the normalizer can return
\* for a stylesheet's declared encoding, the write step encodes with
\* replacement and never fails because of the encoding: a call fails in the
\* write step only when the destination cannot be written.
C12_WriteFailsOnlyOnDestination ==
    [][(pc = "write" /\ pc' = "failed") => call'.error = "OSError"]_vars
\* C13: the preview file derived from a document's path is the same every
\* time, and two different documents, also same-named ones in different
\* folders, get different preview files: a preview file that renders one
\* document is never overwritten with another document.
C13_PreviewNeverOverwritesAnother ==
    [][\A f \in PreviewFiles :
          previews[f] # NoPath => previews'[f] = previews[f]]_vars
\* the ends a call can come to when it runs with no other call beside it,
\* from position stage with locals c on the filesystem d
RECURSIVE RunAlone(_, _, _)
RunAlone(stage, c, d) ==
    IF stage \in {"done", "failed"} THEN {[pc |-> stage, call |-> c, disk |-> d]}
    ELSE UNION { RunAlone(o.pc, o.call, o.disk) : o \in CallSteps(stage, c, d) }

\* what a finished call gave its caller and left at its destination
Outcome(stage, c, d) ==
    [result |-> IF stage = "done" THEN <<"return", c.output_path>>
                ELSE <<"raise", c.error>>,
     content |-> FileAt(d, DestOf(c))]

\* the outcomes of caller i's call had it run alone on the filesystem the
\* calls began on
AloneOutcomes(i) ==
    { Outcome(o.pc, o.call, o.disk) :
        o \in RunAlone("load1",
                       [NoCall EXCEPT !.xml_path = ccall[i].xml_path,
                                      !.output_path = DestOf(ccall[i])],
                       cdisk0) }

SameAsAlone(i) ==
    cpc[i] \in {"done", "failed"} =>
        Outcome(cpc[i], ccall[i], cdisk) \in AloneOutcomes(i)

\* the files caller i's call reads: the document and its sibling stylesheet
\* (the documents of the two callers carry no stylesheet reference)
SourcesOf(i) == {ccall[i].xml_path, WithSuffix(ccall[i].xml_path, <<".", "xsl">>)}

\* no call that has begun writes to a file caller i's call reads
SourcesUntouched(i) ==
    \A j \in Procs \ {i} : cpc[j] = "idle" \/ DestOf(ccall[j]) \notin SourcesOf(i)

\* C14 as stated: concurrent calls for different XML paths that write to
\* different destinations are independent: under every interleaving each call
\* returns what it would return alone and leaves the destination content it
\* would leave alone.
C14_ConcurrentCallsIndependent == \A i \in Procs : SameAsAlone(i)

\* C14 amended: the same for every call whose source files (its document and
\* its stylesheet) are not the destination of another call.
C14_IndependentWhenSourcesUntouched ==
    \A i \in Procs : SourcesUntouched(i) => SameAsAlone(i)

\* both calls have returned, with different markup written in different
\* encodings to their own destinations
C14_Witness ==
    /\ \A i \in Procs : cpc[i] = "done" /\ SourcesUntouched(i)
    /\ cdisk[FHtml].type = "html"
    /\ cdisk[GHtml].type = "html"
    /\ cdisk[FHtml].codec # cdisk[GHtml].codec
\* what reading the instruction at position i alone gives
ReadInstruction(prolog, i) ==
    LET split == ShlexSplit(prolog[i].text)
    IN  IF split.ok THEN [kind |-> "ok", href |-> AttrsGet(split.parts, HrefKey)]
        ELSE [kind |-> "ValueError", href |-> None]

\* what reading the last of the instructions pis gives; no href when pis is empty
ReadNearest(prolog, pis) ==
    IF pis = {} THEN [kind |-> "ok", href |-> None]
    ELSE ReadInstruction(prolog, CHOOSE i \in pis : \A j \in pis : j <= i)

\* the xml-stylesheet instructions that have content
TextedStylesheetPis(prolog) == {i \in StylesheetPis(prolog) : prolog[i].text # <<>>}

\* C15 as stated: with several xml-stylesheet instructions before the root,
\* the href used is that of the instruction nearest the root: the backward
\* scan stops at the first xml-stylesheet instruction it meets and earlier
\* ones are never consulted.
C15_NearestInstructionGoverns ==
    rOp = "read" => rHref = ReadNearest(rTree, StylesheetPis(rTree))

\* C15 amended: the href used is that of the nearest xml-stylesheet
\* instruction that has content: the scan passes over instructions without
\* content, stops at the first one with content, also when that one has no
\* href, and consults no earlier one.
C15_NearestInstructionWithContentGoverns ==
    rOp = "read" => rHref = ReadNearest(rTree, TextedStylesheetPis(rTree))

\* two instructions with content, the earlier one with an href, the one
\* nearest the root with a different href or none: the nearest one was used
C15_Witness ==
    /\ rOp = "read"
    /\ TextedStylesheetPis(rTree) = {1, 2}
    /\ ReadInstruction(rTree, 1).href # None
    /\ ReadInstruction(rTree, 1) # ReadInstruction(rTree, 2)
    /\ rHref = ReadInstruction(rTree, 2)
\* C16: a transform call on an XML path that does not exist fails with the
\* not-found error, not the malformed-input error, in its first step: nothing
\* was parsed or resolved, and nothing is written.
C16_MissingXmlIsNotFound ==
    [][(pc = "load1" /\ pc' # "load1" /\ disk[call.xml_path] = Absent)
          => /\ pc' = "failed"
             /\ call'.error = "FileNotFoundError"
             /\ call'.xml_tree = <<>>
             /\ call'.xsl_path = NoPath
             /\ disk' = disk]_vars

\* a call for a missing document has failed with the not-found error while
\* its stylesheet is there and no output file was ever written
C16_Witness ==
    /\ pc = "failed"
    /\ call.error = "FileNotFoundError"
    /\ disk[FXml] = Absent
    /\ disk[FXsl] # Absent
    /\ \A p \in OutputPaths : disk[p] = Absent
\* C17: stylesheet resolution is recomputed from disk on every call and
\* nothing is remembered between calls: a call begins with no tree, no
\* resolved stylesheet and no markup, and each of its resolution steps gives
\* what the files existing at that moment give, so a call after the
\* stylesheet is deleted fails with not-found and a call after it is
\* restored resolves again.
C17_ResolutionFromDiskEveryCall ==
    [][/\ (pc = "idle" /\ pc' = "load1")
          => /\ call'.xml_tree = <<>>
             /\ call'.xsl_path = NoPath
             /\ call'.html_str = <<>>
             /\ call'.out_enc = <<>>
       /\ (pc \in {"resolve1", "resolve2"} /\ pc' # pc)
          => LET r == ResolveXslPath(call.xml_path, call.xml_tree, ExistingFiles(disk))
             IN  IF r.kind = "return"
                 THEN /\ pc' = (IF pc = "resolve1" THEN "transform" ELSE "encoding")
                      /\ call'.xsl_path = r.path
                 ELSE /\ pc' = "failed"
                      /\ call'.error = r.kind]_vars

\* after a call that wrote its output the stylesheet was deleted, and the
\* next call for the same document has failed with the not-found error
C17_Witness ==
    /\ pc = "failed"
    /\ call.error = "FileNotFoundError"
    /\ call.output_path = NoPath
    /\ disk[FXml] \in XmlContents
    /\ disk[FXml].wellformed
    /\ disk[FXsl] = Absent
    /\ disk[FHtml].type = "html"
\* C18: within one call the output encoding comes from the stylesheet state
\* that produced the markup, also when the files change while the call runs:
\* what is about to be written is the markup of some stylesheet content,
\* declared and encoded with the encoding of that same content.
C18_EncodingFromTransformedStylesheet ==
    pc = "write" =>
        \E c \in XslContents :
            /\ c.wellformed
            /\ c.applies
            /\ call.out_enc = GetOutputEncodingFromXsl(c)
            /\ call.html_str = InjectMetaCharset(InjectCustomCss(c.markup), call.out_enc)
\* C19: after any sequence of folder navigations (open folder or file, up,
\* back, forward), also ones whose target folder no longer exists, either the
\* history is empty and the index is -1, or the index is a position of the
\* history and the folder there is current_folder.
C19_HistoryIndexMatchesCurrentFolder ==
    \/ folder_history = <<>> /\ folder_history_index = -1
    \/ /\ 0 <= folder_history_index
       /\ folder_history_index < Len(folder_history)
       /\ folder_history[folder_history_index + 1] = current_folder
====
